---- MODULE Spec2Model ----
(***************************************************************************)
(* State-machine model of the web UI elements of authentik:                *)
(*   - ModalButton / ModalForm   (dialog state, confirm sequencing)        *)
(*   - the intersectionObserver property decorator                         *)
(*   - AKTimestamp               (debounced interval refresh)              *)
(*   - ModelForm                 (loading the instance when visible)       *)
(* Each element is a specification of its own over the shared variables;   *)
(* the variables of the other elements stay unchanged.                     *)
(***************************************************************************)
EXTENDS Integers, Sequences, FiniteSets, TLC

\* ------------------------------------------------------------------------
\* Bounds of the model
\* ------------------------------------------------------------------------

\* Number of invocations of ModalForm.#confirm (they may overlap).
MaxCalls == 2

\* Largest number of properties of one class decorated with intersectionObserver.
MaxProps == 2

\* Number of times the observed element is connected.
MaxConnects == 2

\* Largest number of entries one observer callback delivers.
MaxEntries == 2

\* The clock of the AKTimestamp model advances in steps of StepMs
\* milliseconds, MaxSteps times.
StepMs == 60000
MaxSteps == 3

\* Scheduling updates counted between two animation frames (saturating).
MaxSched == 2

\* Number of calls of ModelForm.#refresh (they may overlap).
MaxRefreshes == 2

\* ------------------------------------------------------------------------
\* State
\* ------------------------------------------------------------------------

VARIABLES
    \* ModalButton
    dialogRef,                   \* #dialogRef.value is set (the dialog is rendered)
    dialogOpen,                  \* the native dialog's open state
    locked,
    lastOpenOp,                  \* last of show / close / open=true / open=false since render
    \* ModalForm
    closeAfterSuccessfulSubmit,
    loading,
    calls                        \* one record per invocation of #confirm

modalVars == <<dialogRef, dialogOpen, locked, lastOpenOp,
               closeAfterSuccessfulSubmit, loading, calls>>

VARIABLES
    \* an element of a class with intersectionObserver-decorated properties
    nProps,                      \* how many properties are decorated
    once,                        \* options.once of each decorator
    connected,                   \* the element is in the document
    connects,                    \* connectedCallback invocations so far
    hasUpdated,                  \* LitElement.hasUpdated
    privateValue,                       \* this[privateKey] of each decorated property
    observers,                   \* the IntersectionObservers created so far
    observerMap,                 \* observerMap.get(this): an observer, or 0 for none
    obsLast                      \* the last operation on the element

obsVars == <<nProps, once, connected, connects, hasUpdated, privateValue, observers,
             observerMap, obsLast>>

VARIABLES
    \* AKTimestamp
    akState,                     \* "new", "connected" or "disconnected"
    timestamp,                   \* this.timestamp: Null, or {getTime()}
    visible,                     \* the decorated property
    refresh,
    docVisible,                  \* document.visibilityState === "visible"
    changed,                     \* changed properties of the pending update
    updatePending,               \* an update of the element is pending
    timers,                      \* the active interval timers
    raf,                         \* the pending animation-frame requests
    now,                         \* Date.now()
    schedSinceFrame,             \* updates that requested a frame since the last one
    akLast                       \* the last operation on the element

akVars == <<akState, timestamp, visible, refresh, docVisible, changed, updatePending,
            timers, raf, now, schedSinceFrame, akLast>>

VARIABLES
    \* ModelForm
    formState,                   \* "new" or "connected"
    loadDefined,                 \* the subclass defines load()
    visibleKey,                  \* this[privateKey] of visible: {} (undefined) or {boolean}
    changedProperties,           \* the entry for "visible" of the pending update
    instancePk,
    instance,                    \* Null, or the loaded instance
    error,                       \* Null, or the parsed error
    formLoading,                 \* this.loading
    isUpdatePending,             \* LitElement.isUpdatePending
    refreshes                    \* one record per call of #refresh

formVars == <<formState, loadDefined, visibleKey, changedProperties, instancePk,
              instance, error, formLoading, isUpdatePending, refreshes>>

\* The variables of the other elements.
notModal == <<obsVars, akVars, formVars>>
notObs == <<modalVars, akVars, formVars>>
notAk == <<modalVars, obsVars, formVars>>
notForm == <<modalVars, obsVars, akVars>>

vars == <<modalVars, obsVars, akVars, formVars>>

\* ========================================================================
\* ModalButton
\* ========================================================================

\* HTMLDialogElement.showModal(): an open modal dialog stays as it is.
showModal(isOpen) == TRUE

\* HTMLDialogElement.close(): a closed dialog stays closed.
dialogClose(isOpen) == FALSE

\* get open(): the open state of the dialog, false while there is no dialog.
open == IF dialogRef THEN dialogOpen ELSE FALSE

\* A plausible slip: the two branches of the setter exchanged.
setOpenInverted(value) ==
    IF ~dialogRef THEN dialogOpen
    ELSE IF value THEN dialogClose(dialogOpen) ELSE showModal(dialogOpen)

\* set open(value): the dialog's open state after the assignment.
setOpen(value) ==
    IF ~dialogRef THEN dialogOpen
    ELSE IF value THEN showModal(dialogOpen) ELSE dialogClose(dialogOpen)

\* close(): this.#dialogRef?.value?.close(returnValue)
closeResult == IF dialogRef THEN dialogClose(dialogOpen) ELSE dialogOpen

\* The operation is remembered only once the dialog exists.
noteOp(op) == IF dialogRef THEN op ELSE lastOpenOp

\* The first render creates the dialog element (closed).
FirstRender ==
    /\ ~dialogRef
    /\ dialogRef' = TRUE
    /\ dialogOpen' = FALSE
    /\ UNCHANGED <<locked, lastOpenOp, closeAfterSuccessfulSubmit, loading, calls>>
    /\ UNCHANGED notModal

\* show(): this.open = true
Show ==
    /\ dialogOpen' = setOpen(TRUE)
    /\ lastOpenOp' = noteOp("show")
    /\ UNCHANGED <<dialogRef, locked, closeAfterSuccessfulSubmit, loading, calls>>
    /\ UNCHANGED notModal

\* close(), also reached from ModalForm.#cancel
Close ==
    /\ dialogOpen' = closeResult
    /\ lastOpenOp' = noteOp("close")
    /\ UNCHANGED <<dialogRef, locked, closeAfterSuccessfulSubmit, loading, calls>>
    /\ UNCHANGED notModal

\* An assignment to the open property from outside.
AssignOpen(value) ==
    /\ dialogOpen' = setOpen(value)
    /\ lastOpenOp' = noteOp(IF value THEN "setTrue" ELSE "setFalse")
    /\ UNCHANGED <<dialogRef, locked, closeAfterSuccessfulSubmit, loading, calls>>
    /\ UNCHANGED notModal

\* A plausible slip: the target of the event is not looked at.
BackdropMousedownAnyTarget(targetIsDialog) ==
    /\ dialogRef
    /\ IF ~open
         THEN UNCHANGED <<dialogOpen, lastOpenOp>>
         ELSE /\ dialogOpen' = setOpen(FALSE)
              /\ lastOpenOp' = noteOp("backdrop")
    /\ UNCHANGED <<dialogRef, locked, closeAfterSuccessfulSubmit, loading, calls>>
    /\ UNCHANGED notModal

\* #backdropListener: a mousedown on the dialog; targetIsDialog is
\* event.target === event.currentTarget. Its open = false is remembered as
\* "backdrop".
BackdropMousedown(targetIsDialog) ==
    /\ dialogRef
    /\ IF ~open \/ ~targetIsDialog
         THEN UNCHANGED <<dialogOpen, lastOpenOp>>
         ELSE /\ dialogOpen' = setOpen(FALSE)
              /\ lastOpenOp' = noteOp("backdrop")
    /\ UNCHANGED <<dialogRef, locked, closeAfterSuccessfulSubmit, loading, calls>>
    /\ UNCHANGED notModal

\* ========================================================================
\* ModalForm
\* ========================================================================

Calls == 1..MaxCalls

\* Errors a form's submit promise may reject with.
Errors == {"E1", "E2"}

NewCall == [pc |-> "idle", submitErr |-> "none", err |-> "none",
            result |-> "pending", how |-> "none", log |-> <<>>]

\* The closeAfterSuccessfulSubmit property is assigned.
SetCloseAfterSuccessfulSubmit(value) ==
    /\ value # closeAfterSuccessfulSubmit
    /\ closeAfterSuccessfulSubmit' = value
    /\ UNCHANGED <<dialogRef, dialogOpen, locked, lastOpenOp, loading, calls>>
    /\ UNCHANGED notModal

\* A plausible slip: the result of reportValidity is ignored.
ConfirmIgnoringValidity(c, found, valid) ==
    /\ calls[c].pc = "idle"
    /\ \A d \in Calls : d < c => calls[d].pc # "idle"
    /\ IF ~found
         THEN /\ calls' = [calls EXCEPT ![c] =
                    [@ EXCEPT !.pc = "done", !.result = "NoForm", !.how = "noForm"]]
              /\ UNCHANGED <<loading, locked>>
         ELSE /\ loading' = TRUE
              /\ locked' = TRUE
              /\ calls' = [calls EXCEPT ![c] =
                    [@ EXCEPT !.pc = "submitting",
                              !.log = <<"found", IF valid THEN "valid" ELSE "invalid",
                                        "submit">>]]
    /\ UNCHANGED <<dialogRef, dialogOpen, lastOpenOp, closeAfterSuccessfulSubmit>>
    /\ UNCHANGED notModal

\* #confirm, its synchronous part: find the form, validate, submit.
\* found: a Form is among the default slot's elements;
\* valid: what form.reportValidity() returns.
Confirm(c, found, valid) ==
    /\ calls[c].pc = "idle"
    /\ \A d \in Calls : d < c => calls[d].pc # "idle"
    /\ IF ~found
         THEN /\ calls' = [calls EXCEPT ![c] =
                    [@ EXCEPT !.pc = "done", !.result = "NoForm", !.how = "noForm"]]
              /\ UNCHANGED <<loading, locked>>
         ELSE IF ~valid
         THEN /\ loading' = FALSE
              /\ locked' = FALSE
              /\ calls' = [calls EXCEPT ![c] =
                    [@ EXCEPT !.pc = "done", !.result = "resolved", !.how = "invalid",
                              !.log = <<"found", "invalid">>]]
         ELSE /\ loading' = TRUE
              /\ locked' = TRUE
              /\ calls' = [calls EXCEPT ![c] =
                    [@ EXCEPT !.pc = "submitting",
                              !.log = <<"found", "valid", "submit">>]]
    /\ UNCHANGED <<dialogRef, dialogOpen, lastOpenOp, closeAfterSuccessfulSubmit>>
    /\ UNCHANGED notModal

\* The promise returned by form.submit() resolves.
SubmitResolves(c) ==
    /\ calls[c].pc = "submitting"
    /\ calls' = [calls EXCEPT ![c] =
            [@ EXCEPT !.pc = "fulfilled", !.log = Append(@, "resolved")]]
    /\ UNCHANGED <<dialogRef, dialogOpen, locked, lastOpenOp,
                   closeAfterSuccessfulSubmit, loading>>
    /\ UNCHANGED notModal

\* The promise returned by form.submit() rejects with error e.
SubmitRejects(c, e) ==
    /\ calls[c].pc = "submitting"
    /\ calls' = [calls EXCEPT ![c] =
            [@ EXCEPT !.pc = "rejected", !.submitErr = e, !.err = e,
                      !.log = Append(@, "rejected")]]
    /\ UNCHANGED <<dialogRef, dialogOpen, locked, lastOpenOp,
                   closeAfterSuccessfulSubmit, loading>>
    /\ UNCHANGED notModal

\* Where the .then handler may throw: nowhere, or in one of its three
\* statements under closeAfterSuccessfulSubmit.
ThrowPoints == {"none", "close", "reset", "dispatch"}

\* A plausible slip: closeAfterSuccessfulSubmit is not consulted.
ThenHandlerAlwaysClosing(c, throwAt) ==
    /\ calls[c].pc = "fulfilled"
    /\ throwAt = "none"
    /\ dialogOpen' = setOpen(FALSE)
    /\ lastOpenOp' = noteOp("setFalse")
    /\ loading' = FALSE
    /\ locked' = FALSE
    /\ calls' = [calls EXCEPT ![c] =
            [@ EXCEPT !.pc = "done", !.result = "resolved", !.how = "success",
                      !.log = @ \o <<"close", "reset", "refresh">>]]
    /\ UNCHANGED <<dialogRef, closeAfterSuccessfulSubmit>>
    /\ UNCHANGED notModal

\* The .then handler of #confirm.
ThenHandler(c, throwAt) ==
    /\ calls[c].pc = "fulfilled"
    /\ IF closeAfterSuccessfulSubmit
         THEN /\ dialogOpen' = IF throwAt = "close" THEN dialogOpen ELSE setOpen(FALSE)
              /\ lastOpenOp' = IF throwAt = "close" THEN lastOpenOp ELSE noteOp("setFalse")
              /\ IF throwAt = "none"
                   THEN /\ loading' = FALSE
                        /\ locked' = FALSE
                        /\ calls' = [calls EXCEPT ![c] =
                              [@ EXCEPT !.pc = "done", !.result = "resolved",
                                        !.how = "success",
                                        !.log = @ \o <<"close", "reset", "refresh">>]]
                   ELSE /\ UNCHANGED <<loading, locked>>
                        /\ calls' = [calls EXCEPT ![c] =
                              [@ EXCEPT !.pc = "rejected", !.err = "HandlerError",
                                        !.log = @ \o (CASE throwAt = "close" -> <<>>
                                                        [] throwAt = "reset" -> <<"close">>
                                                        [] OTHER -> <<"close", "reset">>)]]
         ELSE /\ throwAt = "none"
              /\ loading' = FALSE
              /\ locked' = FALSE
              /\ calls' = [calls EXCEPT ![c] =
                    [@ EXCEPT !.pc = "done", !.result = "resolved", !.how = "success"]]
              /\ UNCHANGED <<dialogOpen, lastOpenOp>>
    /\ UNCHANGED <<dialogRef, closeAfterSuccessfulSubmit>>
    /\ UNCHANGED notModal

\* A plausible slip: the handler restores nothing.
CatchHandlerKeepingFlags(c) ==
    /\ calls[c].pc = "rejected"
    /\ calls' = [calls EXCEPT ![c] =
            [@ EXCEPT !.pc = "done", !.result = calls[c].err,
                      !.how = IF calls[c].submitErr # "none"
                                THEN "submitRejected" ELSE "handlerThrew"]]
    /\ UNCHANGED <<dialogRef, dialogOpen, locked, lastOpenOp,
                   closeAfterSuccessfulSubmit, loading>>
    /\ UNCHANGED notModal

\* A plausible slip: the handler does not throw the error again.
CatchHandlerSwallowing(c) ==
    /\ calls[c].pc = "rejected"
    /\ loading' = FALSE
    /\ locked' = FALSE
    /\ calls' = [calls EXCEPT ![c] =
            [@ EXCEPT !.pc = "done", !.result = "resolved",
                      !.how = IF calls[c].submitErr # "none"
                                THEN "submitRejected" ELSE "handlerThrew"]]
    /\ UNCHANGED <<dialogRef, dialogOpen, lastOpenOp, closeAfterSuccessfulSubmit>>
    /\ UNCHANGED notModal

\* The .catch handler of #confirm: reached when submit rejected, or when the
\* .then handler threw.
CatchHandler(c) ==
    /\ calls[c].pc = "rejected"
    /\ loading' = FALSE
    /\ locked' = FALSE
    /\ calls' = [calls EXCEPT ![c] =
            [@ EXCEPT !.pc = "done", !.result = calls[c].err,
                      !.how = IF calls[c].submitErr # "none"
                                THEN "submitRejected" ELSE "handlerThrew"]]
    /\ UNCHANGED <<dialogRef, dialogOpen, lastOpenOp, closeAfterSuccessfulSubmit>>
    /\ UNCHANGED notModal

\* ========================================================================
\* intersectionObserver (property decorator)
\* ========================================================================

\* The decorated properties of the class, in declaration order. Each
\* decorator wraps the callbacks the previous one installed, so on connect
\* and on disconnect the wrapper of property 1 runs first.
Props == 1..nProps

\* What one observer callback delivers: one to MaxEntries values of
\* entry.isIntersecting.
Batches == UNION {[1..n -> BOOLEAN] : n \in 1..MaxEntries}

\* The last operation: for a callback, the observer called, isIntersecting
\* of the last entry delivered, and whether some entry was intersecting.
NoOp == [op |-> "init", obs |-> 0, last |-> FALSE, anyTrue |-> FALSE]

\* connectedCallback: this[privateKey] = false; this[key] = false
valueOnConnect(p) == FALSE

\* new IntersectionObserver(...), observerMap.set, waitForFirstUpdate: with
\* hasUpdated the observer observes at once, otherwise when updateComplete
\* resolves.
newObserver(p) == [prop |-> p, observing |-> hasUpdated, deferred |-> ~hasUpdated]

\* The overridden connectedCallback of every decorator, property 1 first;
\* each stores its observer under the element, replacing the entry there.
ConnectedCallback ==
    /\ ~connected
    /\ connects < MaxConnects
    /\ connected' = TRUE
    /\ connects' = connects + 1
    /\ privateValue' = [p \in 1..MaxProps |-> IF p \in Props THEN valueOnConnect(p) ELSE privateValue[p]]
    /\ observers' = observers \o [p \in Props |-> newObserver(p)]
    /\ observerMap' = Len(observers) + nProps
    /\ obsLast' = [NoOp EXCEPT !.op = "connect"]
    /\ UNCHANGED <<nProps, once, hasUpdated>>
    /\ UNCHANGED notObs

\* One overridden disconnectedCallback: the observer stored under the
\* element, if any, is disconnected and the entry deleted.
\* st = [observers, map].
disconnectOne(st) ==
    IF st.map # 0
      THEN [observers |-> [st.observers EXCEPT ![st.map].observing = FALSE], map |-> 0]
      ELSE st

\* The overridden disconnectedCallbacks of k decorators, one after the other.
RECURSIVE disconnectAll(_, _)
disconnectAll(k, st) == IF k = 0 THEN st ELSE disconnectAll(k - 1, disconnectOne(st))

DisconnectedCallback ==
    /\ connected
    /\ connected' = FALSE
    /\ LET st == disconnectAll(nProps, [observers |-> observers, map |-> observerMap])
       IN /\ observers' = st.observers
          /\ observerMap' = st.map
    /\ obsLast' = [NoOp EXCEPT !.op = "disconnect"]
    /\ UNCHANGED <<nProps, once, connects, hasUpdated, privateValue>>
    /\ UNCHANGED notObs

\* The element's first update completes: updateComplete resolves and every
\* waiting .then(() => observer.observe(this)) runs. Lit performs the update
\* whether or not the element is still connected.
FirstUpdateComplete ==
    /\ ~hasUpdated
    /\ connects > 0
    /\ hasUpdated' = TRUE
    /\ observers' = [o \in DOMAIN observers |->
            IF observers[o].deferred
              THEN [observers[o] EXCEPT !.observing = TRUE, !.deferred = FALSE]
              ELSE observers[o]]
    /\ obsLast' = [NoOp EXCEPT !.op = "update"]
    /\ UNCHANGED <<nProps, once, connected, connects, privateValue, observerMap>>
    /\ UNCHANGED notObs

\* A plausible slip: the property follows only entries that intersect.
processEntryOnlyIntersecting(st, isIntersecting, isOnce) ==
    LET val == IF isIntersecting THEN TRUE ELSE st.val
    IN IF isOnce /\ isIntersecting
         THEN [val |-> val, observing |-> FALSE, map |-> 0]
         ELSE [st EXCEPT !.val = val]

\* The observer callback's body for one entry. st = [val, observing, map]:
\* the property, whether the observer observes, and the map's entry.
processEntry(st, isIntersecting, isOnce) ==
    LET val == IF st.val # isIntersecting THEN isIntersecting ELSE st.val
    IN IF isOnce /\ isIntersecting
         THEN [val |-> val, observing |-> FALSE, map |-> 0]
         ELSE [st EXCEPT !.val = val]

\* entries.forEach(...): all entries of the batch are processed in order.
RECURSIVE processEntries(_, _, _, _)
processEntries(st, entries, i, isOnce) ==
    IF i > Len(entries) THEN st
    ELSE processEntries(processEntry(st, entries[i], isOnce), entries, i + 1, isOnce)

\* The browser calls the callback of an observing observer. An element that
\* is not in the document intersects nothing.
ObserverCallback(o, entries) ==
    /\ observers[o].observing
    /\ ~connected => \A i \in DOMAIN entries : ~entries[i]
    /\ LET p == observers[o].prop
           st == processEntries([val |-> privateValue[p], observing |-> TRUE, map |-> observerMap],
                                entries, 1, once[p])
       IN /\ privateValue' = [privateValue EXCEPT ![p] = st.val]
          /\ observers' = [observers EXCEPT ![o].observing = st.observing]
          /\ observerMap' = st.map
    /\ obsLast' = [op |-> "callback", obs |-> o, last |-> entries[Len(entries)],
                    anyTrue |-> \E i \in DOMAIN entries : entries[i]]
    /\ UNCHANGED <<nProps, once, connected, connects, hasUpdated>>
    /\ UNCHANGED notObs

\* A class decorates one to MaxProps properties, at most one of them with
\* once (as in the decorator's documented example).
InitObs ==
    /\ nProps \in 1..MaxProps
    /\ once \in [1..MaxProps -> BOOLEAN]
    /\ \A p \in 1..MaxProps : p > nProps => ~once[p]
    /\ \A p, q \in 1..MaxProps : (once[p] /\ once[q]) => p = q
    /\ connected = FALSE
    /\ connects = 0
    /\ hasUpdated = FALSE
    /\ privateValue = [p \in 1..MaxProps |-> FALSE]
    /\ observers = <<>>
    /\ observerMap = 0
    /\ obsLast = NoOp

NextObs ==
    \/ ConnectedCallback
    \/ DisconnectedCallback
    \/ FirstUpdateComplete
    \/ \E o \in DOMAIN observers, entries \in Batches : ObserverCallback(o, entries)

\* ========================================================================
\* AKTimestamp
\* ========================================================================

\* this.timestamp is a set: empty for null, else holding the Date's getTime().
Null == {}

\* Timestamps the element is given: more than a minute before the first
\* instant of the clock, within a minute of it, and more than a minute
\* after it.
Moments == {-90000, 30000, 150000}

\* The properties whose change makes updated() request an animation frame.
Trig == {"visible", "timestamp", "refresh"}

Window == 60000
FastPeriod == 1000
SlowPeriod == 60000

NoAkOp == [op |-> "init", runs |-> 0, sched |-> 0]

\* raf = [tracked, leaked]: whether the request #animationFrameID names is
\* pending, and how many other requests are.
rafPending(r) == (IF r.tracked THEN 1 ELSE 0) + r.leaked

cancelAnimationFrame(r) == [r EXCEPT !.tracked = FALSE]

requestAnimationFrame(r) == [tracked |-> TRUE, leaked |-> rafPending(r)]

\* A plausible slip: the pending request is not cancelled.
updatedWithoutCancel(r, ch) ==
    IF ch \cap Trig # {} THEN requestAnimationFrame(r) ELSE r

\* updated(changed): the pending requests afterwards.
updated(r, ch) ==
    IF ch \cap Trig # {} THEN requestAnimationFrame(cancelAnimationFrame(r)) ELSE r

\* A timer is [period, moment, since, tracked]: moment is the timestamp its
\* callback closes over, since the instant it was set or last fired,
\* tracked whether #interval names it.
stopInterval(ts) == {t \in ts : ~t.tracked}

inWindow(time, moment) == time >= moment - Window /\ time <= moment + Window

\* A plausible slip: the early return comes before stopInterval().
startIntervalKeepingOld(ts) ==
    IF timestamp = Null \/ ~refresh \/ ~docVisible \/ ~visible
      THEN ts
      ELSE LET moment == CHOOSE m \in timestamp : TRUE
               start == now
           IN stopInterval(ts) \cup
                {[period |-> IF inWindow(start, moment) THEN FastPeriod ELSE SlowPeriod,
                  moment |-> moment, since |-> now, tracked |-> TRUE]}

\* startInterval()
startInterval(ts) ==
    IF timestamp = Null \/ ~refresh \/ ~docVisible \/ ~visible
      THEN stopInterval(ts)
      ELSE LET moment == CHOOSE m \in timestamp : TRUE
               start == now
           IN stopInterval(ts) \cup
                {[period |-> IF inWindow(start, moment) THEN FastPeriod ELSE SlowPeriod,
                  moment |-> moment, since |-> now, tracked |-> TRUE]}

RECURSIVE startIntervalTimes(_, _)
startIntervalTimes(n, ts) ==
    IF n = 0 THEN ts ELSE startInterval(startIntervalTimes(n - 1, ts))

\* The timestamp property is assigned another value.
SetTimestamp(v) ==
    /\ v # timestamp
    /\ timestamp' = v
    /\ changed' = changed \cup {"timestamp"}
    /\ updatePending' = TRUE
    /\ akLast' = [NoAkOp EXCEPT !.op = "set"]
    /\ UNCHANGED <<akState, visible, refresh, docVisible, timers, raf, now, schedSinceFrame>>
    /\ UNCHANGED notAk

\* The refresh property is assigned another value.
SetRefresh(v) ==
    /\ v # refresh
    /\ refresh' = v
    /\ changed' = changed \cup {"refresh"}
    /\ updatePending' = TRUE
    /\ akLast' = [NoAkOp EXCEPT !.op = "set"]
    /\ UNCHANGED <<akState, timestamp, visible, docVisible, timers, raf, now, schedSinceFrame>>
    /\ UNCHANGED notAk

\* The intersection observer of the connected element changes visible.
SetVisible(v) ==
    /\ akState = "connected"
    /\ v # visible
    /\ visible' = v
    /\ changed' = changed \cup {"visible"}
    /\ updatePending' = TRUE
    /\ akLast' = [NoAkOp EXCEPT !.op = "set"]
    /\ UNCHANGED <<akState, timestamp, refresh, docVisible, timers, raf, now, schedSinceFrame>>
    /\ UNCHANGED notAk

\* An update is requested that changes elapsed or datetime
\* (otherChanged), or no property at all.
RequestUpdate(otherChanged) ==
    /\ changed' = IF otherChanged THEN changed \cup {"elapsed"} ELSE changed
    /\ updatePending' = TRUE
    /\ akLast' = [NoAkOp EXCEPT !.op = "set"]
    /\ UNCHANGED <<akState, timestamp, visible, refresh, docVisible, timers, raf, now,
                   schedSinceFrame>>
    /\ UNCHANGED notAk

\* The document is hidden or shown.
VisibilityChange ==
    /\ docVisible' = ~docVisible
    /\ akLast' = [NoAkOp EXCEPT !.op = "document"]
    /\ UNCHANGED <<akState, timestamp, visible, refresh, changed, updatePending, timers,
                   raf, now, schedSinceFrame>>
    /\ UNCHANGED notAk

\* Time passes.
AdvanceTime ==
    /\ now + StepMs <= MaxSteps * StepMs
    /\ now' = now + StepMs
    /\ akLast' = [NoAkOp EXCEPT !.op = "time"]
    /\ UNCHANGED <<akState, timestamp, visible, refresh, docVisible, changed, updatePending,
                   timers, raf, schedSinceFrame>>
    /\ UNCHANGED notAk

\* connectedCallback: the decorator sets visible to false.
AkConnectedCallback ==
    /\ akState # "connected"
    /\ akState' = "connected"
    /\ visible' = FALSE
    /\ changed' = IF visible THEN changed \cup {"visible"} ELSE changed
    /\ updatePending' = (updatePending \/ visible)
    /\ akLast' = [NoAkOp EXCEPT !.op = "connect"]
    /\ UNCHANGED <<timestamp, refresh, docVisible, timers, raf, now, schedSinceFrame>>
    /\ UNCHANGED notAk

\* disconnectedCallback: stopInterval(); cancelAnimationFrame(#animationFrameID)
AkDisconnectedCallback ==
    /\ akState = "connected"
    /\ akState' = "disconnected"
    /\ timers' = stopInterval(timers)
    /\ raf' = cancelAnimationFrame(raf)
    /\ schedSinceFrame' = 0
    /\ akLast' = [NoAkOp EXCEPT !.op = "disconnect"]
    /\ UNCHANGED <<timestamp, visible, refresh, docVisible, changed, updatePending, now>>
    /\ UNCHANGED notAk

\* The pending update is performed, which calls updated(changed). Updates
\* run once the element has been connected for the first time.
PerformUpdate ==
    /\ updatePending
    /\ akState # "new"
    /\ raf' = updated(raf, changed)
    /\ schedSinceFrame' = IF changed \cap Trig # {} /\ schedSinceFrame < MaxSched
                            THEN schedSinceFrame + 1 ELSE schedSinceFrame
    /\ changed' = {}
    /\ updatePending' = FALSE
    /\ akLast' = [NoAkOp EXCEPT !.op = "update"]
    /\ UNCHANGED <<akState, timestamp, visible, refresh, docVisible, timers, now>>
    /\ UNCHANGED notAk

\* An animation frame: every pending request runs startInterval.
AnimationFrame ==
    /\ rafPending(raf) > 0
    /\ timers' = startIntervalTimes(rafPending(raf), timers)
    /\ raf' = [tracked |-> FALSE, leaked |-> 0]
    /\ akLast' = [op |-> "frame", runs |-> rafPending(raf), sched |-> schedSinceFrame]
    /\ schedSinceFrame' = 0
    /\ UNCHANGED <<akState, timestamp, visible, refresh, docVisible, changed, updatePending,
                   now>>
    /\ UNCHANGED notAk

\* The callback of interval timer t runs, its period having passed.
IntervalTick(t) ==
    /\ t \in timers
    /\ now - t.since >= t.period
    /\ LET fired == (timers \ {t}) \cup {[t EXCEPT !.since = now]}
       IN IF ~visible \/ ~docVisible
            THEN /\ timers' = fired
                 /\ UNCHANGED updatePending
            ELSE /\ updatePending' = TRUE
                 /\ timers' = IF t.period = FastPeriod /\ ~inWindow(now, t.moment)
                                THEN startInterval(fired) ELSE fired
    /\ akLast' = [NoAkOp EXCEPT !.op = "tick",
                                !.runs = IF /\ visible /\ docVisible
                                            /\ t.period = FastPeriod
                                            /\ ~inWindow(now, t.moment)
                                           THEN 1 ELSE 0]
    /\ UNCHANGED <<akState, timestamp, visible, refresh, docVisible, changed, raf, now,
                   schedSinceFrame>>
    /\ UNCHANGED notAk

InitAk ==
    /\ akState = "new"
    /\ timestamp = Null
    /\ visible = FALSE
    /\ refresh = FALSE
    /\ docVisible = TRUE
    /\ changed = {"visible"}
    /\ updatePending = TRUE
    /\ timers = {}
    /\ raf = [tracked |-> FALSE, leaked |-> 0]
    /\ now = 0
    /\ schedSinceFrame = 0
    /\ akLast = NoAkOp

NextAk ==
    \/ \E v \in {Null} \cup {{m} : m \in Moments} : SetTimestamp(v)
    \/ \E v \in BOOLEAN : SetRefresh(v)
    \/ \E v \in BOOLEAN : SetVisible(v)
    \/ \E otherChanged \in BOOLEAN : RequestUpdate(otherChanged)
    \/ VisibilityChange
    \/ AdvanceTime
    \/ AkConnectedCallback
    \/ AkDisconnectedCallback
    \/ PerformUpdate
    \/ AnimationFrame
    \/ \E t \in timers : IntervalTick(t)

\* ========================================================================
\* ModelForm
\* ========================================================================

\* Values of instancePk: null, undefined, the empty string, a non-empty
\* string, and the number 0. kind is the JavaScript typeof, text the
\* value written out.
PkNull == [kind |-> "null", text |-> "null"]
PkUndefined == [kind |-> "undefined", text |-> "undefined"]
PkEmpty == [kind |-> "string", text |-> ""]
PkString == [kind |-> "string", text |-> "a"]
PkZero == [kind |-> "number", text |-> "0"]
Pks == {PkNull, PkUndefined, PkEmpty, PkString, PkZero}

\* JavaScript truthiness of an instancePk.
truthy(pk) ==
    CASE pk.kind = "string" -> pk.text # ""
      [] pk.kind = "number" -> pk.text # "0"
      [] OTHER -> FALSE

\* A plausible slip: the test without the typeof clause.
noInstancePkOnlyFalsy(pk) == ~truthy(pk)

\* !this.instancePk && typeof this.instancePk !== "number"
noInstancePk(pk) == ~truthy(pk) /\ pk.kind # "number"

\* What loadInstance(pk) resolves with: the server-side object of that key.
loadedInstance(pk) == {[loadedFrom |-> pk]}

\* parseAPIResponseError(error), when it resolves.
parseAPIResponseError(e) == {[parsedFrom |-> e]}

\* get visible(): this[privateKey] ?? false
formVisible == TRUE \in visibleKey

\* typeof v === "boolean" of a value of this[privateKey]
isBoolean(v) == v # {}

\* The entry of changedProperties for "visible": absent, or the old value.
NoChange == [has |-> FALSE, old |-> {}]

\* requestUpdate("visible", oldValue): nothing when the value is the old one;
\* otherwise the old value is recorded unless an older one is.
changeProperty(ch, newValue, oldValue) ==
    IF newValue = oldValue THEN ch
    ELSE IF ch.has THEN ch ELSE [has |-> TRUE, old |-> oldValue]

Refreshes == 1..MaxRefreshes

\* What load() and loadInstance reject with (error: unknown).
LoadErrors == {"E1"}

\* afterFailure remembers, while the refresh loads, that error was set when
\* it was called.
NewRefresh == [pc |-> "idle", pkUsed |-> {}, err |-> "none", outcome |-> "none",
               afterFailure |-> FALSE]

\* The refresh the next call of #refresh is: calls are numbered in order.
nextRefresh == Cardinality({r \in Refreshes : refreshes[r].pc # "idle"}) + 1

\* A plausible slip: a refresh whenever visible is in the changed properties
\* and is true.
updatedOnAnyChange(ch, vis) == ch.has /\ vis

\* updated(changedProperties): whether #refresh is called.
formUpdated(ch, vis) ==
    LET previousVisibility == ch.old
    IN IF ~ch.has \/ ~isBoolean(previousVisibility) THEN FALSE
       ELSE vis /\ {vis} # previousVisibility

\* A plausible slip: the loading state tested before the error.
renderLoadingFirst(vis, err, isLoading) ==
    IF ~vis THEN "nothing"
    ELSE IF isLoading THEN "loading"
    ELSE IF err # Null THEN "error"
    ELSE "form"

\* render()
render(vis, err, isLoading) ==
    IF ~vis THEN "nothing"
    ELSE IF err # Null THEN "error"
    ELSE IF isLoading THEN "loading"
    ELSE "form"

\* connectedCallback of the decorated class: this[privateKey] = false, then
\* this[key] = false, whose setter finds the old value already false.
FormConnectedCallback ==
    /\ formState = "new"
    /\ formState' = "connected"
    /\ visibleKey' = {FALSE}
    /\ changedProperties' = changeProperty(changedProperties, {FALSE}, {FALSE})
    /\ UNCHANGED <<loadDefined, instancePk, instance, error, formLoading,
                   isUpdatePending, refreshes>>
    /\ UNCHANGED notForm

\* One entry of the observer callback. st = [key, ch, pending].
formEntry(st, isIntersecting) ==
    LET currentValue == TRUE \in st.key
    IN IF currentValue # isIntersecting
         THEN [key |-> {isIntersecting},
               ch |-> changeProperty(
                        changeProperty(st.ch, {isIntersecting}, {isIntersecting}),
                        {isIntersecting}, {currentValue}),
               pending |-> TRUE]
         ELSE st

RECURSIVE formEntries(_, _, _)
formEntries(st, entries, i) ==
    IF i > Len(entries) THEN st
    ELSE formEntries(formEntry(st, entries[i]), entries, i + 1)

\* The observer of the form's visible property calls back.
FormObserverCallback(entries) ==
    /\ formState = "connected"
    /\ LET st == formEntries([key |-> visibleKey, ch |-> changedProperties,
                              pending |-> isUpdatePending], entries, 1)
       IN /\ visibleKey' = st.key
          /\ changedProperties' = st.ch
          /\ isUpdatePending' = st.pending
    /\ UNCHANGED <<formState, loadDefined, instancePk, instance, error, formLoading,
                   refreshes>>
    /\ UNCHANGED notForm

\* The setter of visible, used on the element before it is connected.
SetFormVisible(value) ==
    /\ formState = "new"
    /\ {value} # visibleKey
    /\ visibleKey' = {value}
    /\ changedProperties' = changeProperty(changedProperties, {value}, visibleKey)
    /\ isUpdatePending' = TRUE
    /\ UNCHANGED <<formState, loadDefined, instancePk, instance, error, formLoading,
                   refreshes>>
    /\ UNCHANGED notForm

\* instancePk is assigned another value.
SetInstancePk(pk) ==
    /\ pk # instancePk
    /\ instancePk' = pk
    /\ isUpdatePending' = TRUE
    /\ UNCHANGED <<formState, loadDefined, visibleKey, changedProperties, instance,
                   error, formLoading, refreshes>>
    /\ UNCHANGED notForm

\* The reactions of the promise chain of #refresh are microtasks: each runs
\* right after the settlement that triggers it, before any other task. They
\* are operators on st = [loading, instance, error, pending, refreshes],
\* pending being isUpdatePending.
formSt == [loading |-> formLoading, instance |-> instance, error |-> error,
           pending |-> isUpdatePending, refreshes |-> refreshes]

\* .finally(() => { this.loading = false; this.requestUpdate(); })
\* The record of a refresh that succeeded keeps the key it loaded.
finallyHandler(st, r, how) ==
    [st EXCEPT !.loading = FALSE, !.pending = TRUE,
               !.refreshes[r] =
                   [NewRefresh EXCEPT !.pc = "done", !.outcome = how,
                                      !.pkUsed = IF how = "success"
                                                   THEN st.refreshes[r].pkUsed ELSE {}]]

\* .then((instance) => { this.instance = instance; }), then .finally
thenSetInstance(st, r, value) ==
    finallyHandler([st EXCEPT !.instance = value,
                              !.pending = st.pending \/ value # st.instance],
                   r, "success")

\* A plausible slip: the first .then handler without its test of instancePk.
thenLoadInstanceWithoutTest(st, r, pk) ==
    [st EXCEPT !.refreshes[r].pc = "loadInstance", !.refreshes[r].pkUsed = {pk}]

\* The first .then handler: loadInstance(this.instancePk), or null when
\* there is no instancePk now, which the second handler receives at once.
thenLoadInstance(st, r, pk) ==
    IF noInstancePk(pk)
      THEN thenSetInstance(st, r, Null)
      ELSE [st EXCEPT !.refreshes[r].pc = "loadInstance", !.refreshes[r].pkUsed = {pk}]

\* The .catch handler up to its await: parseAPIResponseError(error) is called.
catchHandler(st, r, e) ==
    [st EXCEPT !.refreshes[r] = [NewRefresh EXCEPT !.pc = "parsing", !.err = e]]

\* #refresh(): refresh r is the record of this call.
refreshStart(st, r, pk) ==
    IF noInstancePk(pk)
      THEN [st EXCEPT !.refreshes[r] =
                [NewRefresh EXCEPT !.pc = "done", !.outcome = "skipped"]]
      ELSE LET s1 == [st EXCEPT !.loading = TRUE, !.pending = ~st.loading,
                                !.refreshes[r].afterFailure = st.error # Null]
           IN IF loadDefined
                THEN [s1 EXCEPT !.refreshes[r].pc = "load"]
                ELSE thenLoadInstance(s1, r, pk)

\* The pending update is performed: updated(changedProperties) runs and may
\* call #refresh, whose loading = true requests another update.
FormPerformUpdate ==
    /\ isUpdatePending
    /\ formState # "new"
    /\ LET starts == formUpdated(changedProperties, formVisible)
           st == [formSt EXCEPT !.pending = FALSE]
       IN /\ starts => nextRefresh \in Refreshes
          /\ LET after == IF starts THEN refreshStart(st, nextRefresh, instancePk) ELSE st
             IN /\ formLoading' = after.loading
                /\ refreshes' = after.refreshes
                /\ isUpdatePending' = after.pending
    /\ changedProperties' = NoChange
    /\ UNCHANGED <<formState, loadDefined, visibleKey, instancePk, instance, error>>
    /\ UNCHANGED notForm

\* The other variables follow st.
formBecomes(st) ==
    /\ formLoading' = st.loading
    /\ instance' = st.instance
    /\ error' = st.error
    /\ isUpdatePending' = st.pending
    /\ refreshes' = st.refreshes
    /\ UNCHANGED <<formState, loadDefined, visibleKey, changedProperties, instancePk>>
    /\ UNCHANGED notForm

\* The promise of load() resolves and the first .then handler runs.
LoadResolves(r) ==
    /\ refreshes[r].pc = "load"
    /\ formBecomes(thenLoadInstance(formSt, r, instancePk))

\* The promise of load() rejects: both .then handlers are passed over.
LoadRejects(r, e) ==
    /\ refreshes[r].pc = "load"
    /\ formBecomes(catchHandler(formSt, r, e))

\* The value loadInstance resolved with.
resolvedInstance(rec) == loadedInstance(CHOOSE pk \in rec.pkUsed : TRUE)

\* The promise of loadInstance resolves.
LoadInstanceResolves(r) ==
    /\ refreshes[r].pc = "loadInstance"
    /\ formBecomes(thenSetInstance(formSt, r, resolvedInstance(refreshes[r])))

\* The promise of loadInstance rejects.
LoadInstanceRejects(r, e) ==
    /\ refreshes[r].pc = "loadInstance"
    /\ formBecomes(catchHandler(formSt, r, e))

\* parseAPIResponseError resolves: this.error = the parsed error, then .finally.
ParseResolves(r) ==
    /\ refreshes[r].pc = "parsing"
    /\ LET parsed == parseAPIResponseError(refreshes[r].err)
       IN formBecomes(finallyHandler([formSt EXCEPT !.error = parsed,
                                                    !.pending = @ \/ parsed # error],
                                     r, "failed"))

\* A plausible slip: the cleanup in a .then after the .catch rather than in
\* .finally, so that a rejecting .catch handler passes over it.
ParseRejectsWithoutFinally(r) ==
    /\ refreshes[r].pc = "parsing"
    /\ formBecomes([formSt EXCEPT !.refreshes[r] =
                       [NewRefresh EXCEPT !.pc = "done", !.outcome = "parseFailed"]])

\* parseAPIResponseError rejects: the .catch handler rejects, error is not
\* assigned, and .finally still runs.
ParseRejects(r) ==
    /\ refreshes[r].pc = "parsing"
    /\ formBecomes(finallyHandler(formSt, r, "parseFailed"))

\* A subclass defines load() or not; everything else is as constructed.
InitForm(defined) ==
    /\ formState = "new"
    /\ loadDefined = defined
    /\ visibleKey = {}
    /\ changedProperties = NoChange
    /\ instancePk = PkNull
    /\ instance = Null
    /\ error = Null
    /\ formLoading = FALSE
    /\ isUpdatePending = TRUE
    /\ refreshes = [r \in Refreshes |-> NewRefresh]

NextForm ==
    \/ FormConnectedCallback
    \/ \E entries \in Batches : FormObserverCallback(entries)
    \/ \E value \in BOOLEAN : SetFormVisible(value)
    \/ \E pk \in Pks : SetInstancePk(pk)
    \/ FormPerformUpdate
    \/ \E r \in Refreshes : LoadResolves(r)
    \/ \E r \in Refreshes, e \in LoadErrors : LoadRejects(r, e)
    \/ \E r \in Refreshes : LoadInstanceResolves(r)
    \/ \E r \in Refreshes, e \in LoadErrors : LoadInstanceRejects(r, e)
    \/ \E r \in Refreshes : ParseResolves(r)
    \/ \E r \in Refreshes : ParseRejects(r)

\* ========================================================================
\* Specifications
\* ========================================================================

InitModal ==
    /\ dialogRef = FALSE
    /\ dialogOpen = FALSE
    /\ locked = FALSE
    /\ lastOpenOp = "none"
    /\ closeAfterSuccessfulSubmit = TRUE
    /\ loading = FALSE
    /\ calls = [c \in Calls |-> NewCall]

NextModal ==
    \/ FirstRender
    \/ Show
    \/ Close
    \/ \E value \in BOOLEAN : AssignOpen(value)
    \/ \E targetIsDialog \in BOOLEAN : BackdropMousedown(targetIsDialog)
    \/ \E value \in BOOLEAN : SetCloseAfterSuccessfulSubmit(value)
    \/ \E c \in Calls, found \in BOOLEAN, valid \in BOOLEAN : Confirm(c, found, valid)
    \/ \E c \in Calls : SubmitResolves(c)
    \/ \E c \in Calls, e \in Errors : SubmitRejects(c, e)
    \/ \E c \in Calls, throwAt \in ThrowPoints : ThenHandler(c, throwAt)
    \/ \E c \in Calls : CatchHandler(c)

\* In the specifications of the other elements the form's class has no load().
Init == InitModal /\ InitObs /\ InitAk /\ InitForm(FALSE)

\* In the specifications of the other elements the observed class is fixed:
\* one decorated property, without once.
InitOneProp == Init /\ nProps = 1 /\ \A p \in 1..MaxProps : ~once[p]

SpecModal == InitOneProp /\ [][NextModal]_vars

SpecObs == Init /\ [][NextObs]_vars

SpecAk == InitOneProp /\ [][NextAk]_vars

\* ModelForm: a subclass with load() or without.
InitFormClass ==
    /\ InitModal
    /\ InitObs /\ nProps = 1 /\ \A p \in 1..MaxProps : ~once[p]
    /\ InitAk
    /\ \E defined \in BOOLEAN : InitForm(defined)

SpecForm == InitFormClass /\ [][NextForm]_vars

\* A pending promise of load(), loadInstance or parseAPIResponseError settles.
Settles ==
    \E r \in Refreshes :
       \/ LoadResolves(r)
       \/ \E e \in LoadErrors : LoadRejects(r, e)
       \/ LoadInstanceResolves(r)
       \/ \E e \in LoadErrors : LoadInstanceRejects(r, e)
       \/ ParseResolves(r)
       \/ ParseRejects(r)

\* load(), loadInstance and parseAPIResponseError settle: while a promise
\* is pending one of the pending ones settles, and a refresh has at most
\* three of them.
FairSpecForm == SpecForm /\ WF_vars(Settles)

\* Promise reaction jobs are always run by the event loop: a settled submit
\* promise gets its handler, and a throwing .then handler its .catch.
FairSpecModal ==
    /\ SpecModal
    /\ \A c \in Calls :
          /\ WF_vars(\E throwAt \in ThrowPoints : ThenHandler(c, throwAt))
          /\ WF_vars(CatchHandler(c))

\* ========================================================================
\* Properties of the intersectionObserver decorator
\* ========================================================================

NoneObserving == \A o \in DOMAIN observers : ~observers[o].observing

\* C4: a decorated property is false right after every connectedCallback;
\* while the element is connected, after a callback of an observer without
\* once its property equals isIntersecting of the last entry delivered (and
\* no other property changed); no other step changes a property.
C4_PropertyFollowsLastEntry ==
    [][/\ obsLast'.op = "connect" => \A p \in Props : ~privateValue'[p]
       /\ obsLast'.op = "callback" =>
             LET p == observers[obsLast'.obs].prop
             IN /\ (connected /\ ~once[p]) => privateValue'[p] = obsLast'.last
                /\ \A q \in Props : q # p => privateValue'[q] = privateValue[q]
       /\ obsLast'.op \notin {"connect", "callback"} => privateValue' = privateValue
      ]_obsVars

\* On a connected element an observer without once delivered an
\* intersecting entry and then, in the same callback, one that is not, and
\* the property is false.
C4_Witness ==
    /\ obsLast.op = "callback"
    /\ obsLast.anyTrue
    /\ ~obsLast.last
    /\ connected
    /\ ~once[observers[obsLast.obs].prop]
    /\ ~privateValue[observers[obsLast.obs].prop]

\* C5: with once, after a callback that delivered an entry with
\* isIntersecting = true the observer is disconnected, the element has no
\* entry in the observer map and the property is true.
C5_OnceStaysTrue ==
    (/\ nProps = 1
     /\ obsLast.op = "callback"
     /\ once[1]
     /\ obsLast.anyTrue)
       => /\ ~observers[obsLast.obs].observing
          /\ observerMap = 0
          /\ privateValue[1]

\* C6: an element with one decorated property that is not connected is
\* observed by no observer of the decorator and has no entry in the map.
C6_DisconnectCleansUp ==
    (nProps = 1 /\ ~connected) => (NoneObserving /\ observerMap = 0)

\* C7: with several decorated properties, right after disconnectedCallback
\* none of the observers is observing the element.
C7_AllObserversDisconnected ==
    (nProps > 1 /\ obsLast.op = "disconnect") => NoneObserving

\* ========================================================================
\* Properties of ModelForm
\* ========================================================================

\* The values of instancePk the refresh is said to load nothing for.
EmptyPks == {PkNull, PkUndefined, PkEmpty}

\* C11: an update starts a refresh exactly when its changed properties
\* record a previous boolean value of visible that differs from the current
\* value and the current value is true.
C11_RefreshOnBecomingVisible ==
    [][FormPerformUpdate
          => ((nextRefresh' = nextRefresh + 1)
                <=> /\ changedProperties.has
                    /\ changedProperties.old \in {{TRUE}, {FALSE}}
                    /\ changedProperties.old # {formVisible}
                    /\ formVisible)]_vars

\* A refresh was started, and the form is visible.
C11_Witness ==
    /\ refreshes[1].pc # "idle"
    /\ formVisible

\* C12: a rejection of load() or loadInstance leaves instance as it is and
\* leads to the parsing of the error; when the parsing resolves the parsed
\* error is stored in error, instance still untouched; and a visible form
\* with an error renders the error state, whatever loading is.
C12_FailureStoresErrorKeepsInstance ==
    /\ [][\A r \in Refreshes :
            /\ (refreshes[r].pc \in {"load", "loadInstance"} /\ refreshes'[r].err # "none")
                  => (refreshes'[r].pc = "parsing" /\ instance' = instance /\ error' = error)
            /\ (refreshes[r].pc = "parsing" /\ refreshes'[r].outcome = "failed")
                  => /\ error' = {[parsedFrom |-> refreshes[r].err]}
                     /\ instance' = instance]_vars
    /\ []((error # Null /\ formVisible) => render(formVisible, error, formLoading) = "error")

\* A refresh has failed and its error is stored; the form is visible and
\* loading again, and shows the error state.
C12_Witness ==
    /\ \E r \in Refreshes : refreshes[r].outcome = "failed"
    /\ error # Null
    /\ formVisible
    /\ formLoading

\* C16: a refresh called with instancePk null, undefined or "" loads nothing
\* and leaves loading, instance and error as they are; with any other
\* instancePk, the number 0 included, it sets loading and calls load() or,
\* without load(), loadInstance.
C16_RefreshSkipsWithoutPk ==
    [][\A r \in Refreshes :
          (refreshes[r].pc = "idle" /\ refreshes'[r].pc # "idle")
             => IF instancePk \in EmptyPks
                  THEN /\ refreshes'[r].outcome = "skipped"
                       /\ UNCHANGED <<formLoading, instance, error>>
                  ELSE /\ refreshes'[r].pc = (IF loadDefined THEN "load" ELSE "loadInstance")
                       /\ formLoading']_vars

\* One refresh was skipped, another loads the instance of the key 0.
C16_Witness ==
    /\ \E r \in Refreshes : refreshes[r].outcome = "skipped"
    /\ \E r \in Refreshes :
          refreshes[r].pc = "loadInstance" /\ refreshes[r].pkUsed = {PkZero}

\* C17: with load() defined a refresh calls load() first; loadInstance is
\* called when load() has resolved, with the instancePk of that moment;
\* after a rejection of load() it is never called; and when instancePk is
\* null or empty at that moment it is not called and instance becomes null.
C17_LoadThenLoadInstance ==
    [][\A r \in Refreshes :
          /\ (loadDefined /\ refreshes[r].pc = "idle")
                => refreshes'[r].pc \in {"idle", "load", "done"}
          /\ (refreshes[r].pc # "loadInstance" /\ refreshes'[r].pc = "loadInstance")
                => /\ loadDefined => refreshes[r].pc = "load"
                   /\ instancePk \notin EmptyPks
                   /\ refreshes'[r].pkUsed = {instancePk}
          /\ (refreshes[r].pc = "load" /\ refreshes'[r].pc = "done")
                => /\ instancePk \in EmptyPks
                   /\ instance' = Null
          /\ (refreshes[r].pc = "load" /\ instancePk \in EmptyPks)
                => refreshes'[r].pc # "loadInstance"
          /\ refreshes[r].pc = "parsing" => refreshes'[r].pc \in {"parsing", "done"}
          /\ refreshes[r].pc = "done" => refreshes'[r].pc = "done"]_vars

\* load() resolved when there was no instancePk any more: the only refresh
\* so far succeeded with null.
C17_Witness ==
    /\ loadDefined
    /\ refreshes[1].outcome = "success"
    /\ refreshes[2].pc = "idle"
    /\ instance = Null

\* C18: a refresh that starts loading sets loading; the step that ends it,
\* after success or failure, a failure of the parsing included, leaves
\* loading false; and with load(), loadInstance and the parsing settling,
\* no refresh stays pending forever: again and again none is pending.
C18_LoadingClearedInEveryOutcome ==
    /\ [][\A r \in Refreshes :
            /\ (refreshes[r].pc = "idle" /\ refreshes'[r].pc \in {"load", "loadInstance"})
                  => formLoading'
            /\ (refreshes[r].pc \in {"load", "loadInstance", "parsing"}
                   /\ refreshes'[r].pc = "done")
                  => ~formLoading']_vars
    /\ []<>(\A r \in Refreshes :
               refreshes[r].pc \notin {"load", "loadInstance", "parsing"})

\* A refresh whose error could not be parsed has ended, and loading is false.
C18_Witness ==
    /\ \E r \in Refreshes : refreshes[r].outcome = "parseFailed"
    /\ ~formLoading

\* A refresh whose promise of load() or loadInstance is pending, or whose
\* error is being parsed.
refreshPending(r) == refreshes[r].pc \in {"load", "loadInstance", "parsing"}

\* C21: when a refresh called after a failed one (error was set) succeeds,
\* error is null afterwards and a visible form renders the form.
C21_ErrorClearedBySuccess ==
    [][\A r \in Refreshes :
          (/\ refreshes[r].pc \in {"load", "loadInstance"}
           /\ refreshes[r].afterFailure
           /\ refreshes'[r].outcome = "success")
             => /\ error' = Null
                /\ formVisible' => render(formVisible', error', formLoading') = "form"]_vars

\* What a refresh that succeeded assigned to instance.
resultOf(rec) == IF rec.pkUsed = {} THEN Null ELSE resolvedInstance(rec)

\* C22: loading is true while some refresh is pending; and when none is
\* pending and the refresh called last has succeeded, instance is what that
\* refresh loaded.
C22_LastRefreshWins ==
    /\ (\E r \in Refreshes : refreshPending(r)) => formLoading
    /\ (/\ nextRefresh > 1
        /\ \A r \in Refreshes : ~refreshPending(r)
        /\ refreshes[nextRefresh - 1].outcome = "success")
          => instance = resultOf(refreshes[nextRefresh - 1])

\* ========================================================================
\* Properties of AKTimestamp
\* ========================================================================

\* C8: at most one animation-frame request for startInterval is pending;
\* an update that changes visible, timestamp or refresh leaves exactly one
\* pending, and the animation frame runs startInterval exactly once,
\* however many updates requested it; an update that changes none of the
\* three leaves the requests as they are.
C8_IntervalRefreshDebounced ==
    [][/\ rafPending(raf') <= 1
       /\ akLast'.op = "frame" => akLast'.runs = 1
       /\ (akLast'.op = "update" /\ changed \cap Trig # {}) => rafPending(raf') = 1
       /\ (akLast'.op = "update" /\ changed \cap Trig = {}) => raf' = raf
      ]_akVars

\* Two updates or more requested a frame, and the frame ran startInterval
\* once.
C8_Witness ==
    /\ akLast.op = "frame"
    /\ akLast.sched >= 2
    /\ akLast.runs = 1
    /\ timers # {}

\* C9: after every tick of an interval on a visible element in a visible
\* document, the active timer's period is one second if the current time is
\* within 60 seconds of its timestamp, and one minute otherwise.
C9_PeriodFollowsDistance ==
    (akLast.op = "tick" /\ visible /\ docVisible)
       => \A t \in timers :
             t.period = IF inWindow(now, t.moment) THEN FastPeriod ELSE SlowPeriod

\* ========================================================================
\* Properties of ModalButton and ModalForm
\* ========================================================================

Before(log, i, what) == \E j \in 1..(i - 1) : log[j] = what

\* C1: within one confirm call, submit is invoked only after a form was
\* found and reportValidity returned true (never after a failed
\* validation), and a refresh event is dispatched only after the submission
\* of that call resolved.
C1_ValidateSubmitRefresh ==
    \A c \in Calls :
        LET log == calls[c].log IN
        \A i \in 1..Len(log) :
            /\ log[i] = "submit" =>
                  /\ Before(log, i, "found")
                  /\ Before(log, i, "valid")
                  /\ ~Before(log, i, "invalid")
            /\ log[i] = "refresh" =>
                  \E j \in 1..(i - 1) : log[j] = "resolved" /\ Before(log, j, "submit")

\* A call went through validation, submission and refresh.
C1_Witness ==
    \E c \in Calls :
        calls[c].log = <<"found", "valid", "submit", "resolved",
                         "close", "reset", "refresh">>

\* C2: whenever a confirm call that found a form finishes, loading and
\* locked are both false at that moment; and once the submit promise of a
\* call has settled, the call finishes.
C2_FlagsClearedOnFinish ==
    /\ [][\A c \in Calls :
             (calls[c].pc # "done" /\ calls'[c].pc = "done" /\ calls'[c].how # "noForm")
                => (~loading' /\ ~locked')]_vars
    /\ \A c \in Calls :
          (calls[c].pc \in {"fulfilled", "rejected"}) ~> (calls[c].pc = "done")

\* One call finished after its .then handler threw, another after its
\* submission was rejected, and the flags are down.
C2_Witness ==
    /\ \E c \in Calls : calls[c].pc = "done" /\ calls[c].how = "handlerThrew"
    /\ \E c \in Calls : calls[c].pc = "done" /\ calls[c].how = "submitRejected"
    /\ ~loading
    /\ ~locked

\* C3: when submit rejects, the .catch handler leaves the open state as it
\* is, the form is not reset, no refresh event is dispatched, and confirm
\* rejects with the error submit rejected with.
C3_RejectionPropagates ==
    [][\A c \in Calls :
          (calls[c].pc = "rejected" /\ calls[c].submitErr # "none" /\ calls'[c].pc = "done")
             => /\ open' = open
                /\ calls'[c].result = calls[c].submitErr
                /\ \A i \in 1..Len(calls'[c].log) :
                      calls'[c].log[i] \notin {"close", "reset", "refresh"}]_vars

\* A confirm call on an open modal rejected with the error of submit.
C3_Witness ==
    \E c \in Calls :
        /\ calls[c].pc = "done"
        /\ calls[c].how = "submitRejected"
        /\ calls[c].result = "E2"
        /\ open

\* C10: once the dialog is rendered, open is true exactly when the last of
\* show(), close(), open = true, open = false was show() or open = true;
\* before the dialog is rendered open is false.
C10_OpenIsDialogState ==
    /\ dialogRef => (open <=> lastOpenOp \in {"show", "setTrue"})
    /\ ~dialogRef => ~open

\* The modal was shown, closed and shown again by an assignment.
C10_Witness ==
    /\ dialogRef
    /\ open
    /\ lastOpenOp = "setTrue"
    /\ \E c \in Calls : calls[c].how = "success"

\* C14: right after startInterval has run (in an animation frame or from
\* the one-second timer), an interval timer is active only if the timestamp
\* is non-null, refresh is true, the document is visible and the element is
\* visible; if any of these fails no interval timer is active.
C14_TimerOnlyWhenAllHold ==
    (akLast.op \in {"frame", "tick"} /\ akLast.runs > 0)
       => (timers # {} => (timestamp # Null /\ refresh /\ docVisible /\ visible))

\* startInterval, called by the running one-second timer, cleared that
\* timer and created none.
C14_Witness ==
    /\ akLast.op = "tick"
    /\ akLast.runs = 1
    /\ timers = {}

\* C20: while the element is disconnected no interval timer is active and
\* no animation frame request is pending.
C20_NothingWhileDisconnected ==
    akState = "disconnected" => (timers = {} /\ rafPending(raf) = 0)

\* C13: a .then handler that runs to its end closes the modal, resets the
\* form and dispatches one refresh event, in that order, if
\* closeAfterSuccessfulSubmit is true; if it is false the open state and
\* the form are left alone and no event is dispatched.
C13_CloseResetRefreshIffOption ==
    [][\A c \in Calls :
          (calls[c].pc = "fulfilled" /\ calls'[c].pc = "done")
             => IF closeAfterSuccessfulSubmit
                  THEN /\ calls'[c].log = calls[c].log \o <<"close", "reset", "refresh">>
                       /\ ~open'
                  ELSE /\ calls'[c].log = calls[c].log
                       /\ open' = open]_vars

\* One submission succeeded with the option on (closed, reset, refreshed),
\* another with the option off on an open modal, which stayed open.
C13_Witness ==
    /\ \E c \in Calls :
          calls[c].log = <<"found", "valid", "submit", "resolved",
                           "close", "reset", "refresh">>
    /\ \E c \in Calls :
          /\ calls[c].how = "success"
          /\ calls[c].log = <<"found", "valid", "submit", "resolved">>
    /\ open
    /\ ~closeAfterSuccessfulSubmit

\* C15: a mousedown on the dialog closes the modal when the modal is open
\* and the target is the dialog itself, and otherwise leaves the open state
\* as it is.
C15_BackdropClosesOnlyOnDialog ==
    [][\A targetIsDialog \in BOOLEAN :
          BackdropMousedown(targetIsDialog)
             => open' = (open /\ ~targetIsDialog)]_vars

\* The listener closed an open modal.
C15_Witness ==
    /\ dialogRef
    /\ ~open
    /\ lastOpenOp = "backdrop"

\* C19: while a submission started by confirm is pending, loading and
\* locked are both true.
C19_FlagsWhilePending ==
    (\E c \in Calls : calls[c].pc = "submitting") => (loading /\ locked)

====
